---- MODULE Spec2Model ----
(***************************************************************************)
(* Model of the outbox abstraction core (package abstraction):             *)
(*   - the event factory CreateNewEvent and the OutboxEventStatus codec,   *)
(*   - the registry outboxEventManagerImpl (RegisterEventChannel,          *)
(*     GetChannel),                                                        *)
(*   - the channel capability, through the recording mockChannel.          *)
(* Strings the code inspects byte by byte (JSON text, status values,       *)
(* rendered ids) are sequences of one-character strings; opaque strings    *)
(* (names, aggregate references, payloads, error messages) are TLA+        *)
(* strings.                                                                *)
(***************************************************************************)
EXTENDS Integers, Sequences, FiniteSets, TLC

VARIABLES
    eventChannels,   \* outboxEventManagerImpl.eventChannels: map key -> channel
    chanEvents,      \* mockChannel.events, per channel instance
    created,         \* events returned by CreateNewEvent so far, with the arguments
    handoffs,        \* history: (event type, channel, event) of every RegisterEvent call
    firstRegistered, \* history: channel of the first RegisterEventChannel call per key
    uuidsDrawn,      \* values uuid.New() has returned so far
    now,             \* last reading of the wall clock
    lastCall,        \* the most recent call and what it returned
    codec,           \* state of the OutboxEventStatus (de)serialization scenario
    inflight         \* per goroutine: its RegisterEventChannel call in progress

vars == <<eventChannels, chanEvents, created, handoffs, firstRegistered,
          uuidsDrawn, now, lastCall, codec, inflight>>

managerVars == <<eventChannels, firstRegistered>>
eventVars   == <<created, uuidsDrawn, now>>
channelVars == <<chanEvents, handoffs>>

----------------------------------------------------------------------------
(* Bounds *)

MaxEvents   == 2   \* CreateNewEvent calls
MaxLen      == 3   \* length of arbitrary JSON input texts

----------------------------------------------------------------------------
(* Values *)

\* mockEventType{name, id}: comparable struct values used as map keys.
mockEventType(name, id) == [name |-> name, id |-> id]

EventTypes ==
    { mockEventType("UserCreated", 1),
      mockEventType("UserUpdated", 2),
      mockEventType("UserCreated", 3) }

GetName(eventType) == eventType.name
GetID(eventType)   == eventType.id

NoEventType == mockEventType("", 0)

\* Channel instances (*mockChannel pointers) and the nil interface value.
Channels    == {"ch1", "ch2"}
NilChannel  == "nil"
ChannelArgs == Channels \cup {NilChannel}

\* error values
NoError              == "nil"
ErrAlreadyRegistered == "event channel already registered for this event type"
ErrNotFound          == "outbox event channel not found"
ErrNilDereference    == "panic: nil pointer dereference"
ErrDecode            == "json: decode error"

\* OutboxEventStatus constants
OutboxEventStatusPending == <<"p", "e", "n", "d", "i", "n", "g">>
OutboxEventStatusClosed  == <<"c", "l", "o", "s", "e", "d">>
OutboxEventStatusFailed  == <<"f", "a", "i", "l", "e", "d">>

OutboxEventStatuses ==
    {OutboxEventStatusPending, OutboxEventStatusClosed, OutboxEventStatusFailed}

\* func (e OutboxEventStatus) String() string { return string(e) }
String(e) == e

----------------------------------------------------------------------------
(* uuid.New().String() *)

HexDigit == <<"0", "1", "2", "3", "4", "5", "6", "7",
              "8", "9", "a", "b", "c", "d", "e", "f">>

\* One distinct value is available for every CreateNewEvent call.
UUIDs == 0..(MaxEvents - 1)

\* uuid.New(): a random value, taken never to repeat an earlier one.  The
\* values are only ever compared for equality, so the n-th value drawn is
\* named n.
UUIDNew(drawn) == Cardinality(drawn)

\* Lowercase hexadecimal rendering, two digits per byte.
UUIDString(u) == <<HexDigit[(u \div 16) + 1], HexDigit[(u % 16) + 1]>>

----------------------------------------------------------------------------
(* Event factory *)

\* Variant: the status of a new event is "closed".
OutboxEvent_closed(uuid, eventType, AggregateType, AggregateID, payload, tm) ==
    [ EventID       |-> UUIDString(uuid),
      EventType     |-> GetName(eventType),
      EventStatus   |-> String(OutboxEventStatusClosed),
      AggregateType |-> AggregateType,
      AggregateID   |-> AggregateID,
      Payload       |-> payload,
      CreatedAt     |-> tm ]

\* Variant: the id is the zero uuid instead of the generated one.
OutboxEvent_nilUuid(uuid, eventType, AggregateType, AggregateID, payload, tm) ==
    [ EventID       |-> UUIDString(0),
      EventType     |-> GetName(eventType),
      EventStatus   |-> String(OutboxEventStatusPending),
      AggregateType |-> AggregateType,
      AggregateID   |-> AggregateID,
      Payload       |-> payload,
      CreatedAt     |-> tm ]

\* Variant: the two aggregate arguments are assigned crosswise.
OutboxEvent_swapped(uuid, eventType, AggregateType, AggregateID, payload, tm) ==
    [ EventID       |-> UUIDString(uuid),
      EventType     |-> GetName(eventType),
      EventStatus   |-> String(OutboxEventStatusPending),
      AggregateType |-> AggregateID,
      AggregateID   |-> AggregateType,
      Payload       |-> payload,
      CreatedAt     |-> tm ]

OutboxEvent(uuid, eventType, AggregateType, AggregateID, payload, tm) ==
    [ EventID       |-> UUIDString(uuid),
      EventType     |-> GetName(eventType),
      EventStatus   |-> String(OutboxEventStatusPending),
      AggregateType |-> AggregateType,
      AggregateID   |-> AggregateID,
      Payload       |-> payload,
      CreatedAt     |-> tm ]

Panicked == lastCall.err = ErrNilDereference

Call(op, eventType, channel, err, ret) ==
    [op |-> op, eventType |-> eventType, channel |-> channel, err |-> err, ret |-> ret]

CreateNewEvent(eventType, AggregateType, AggregateID, payload) ==
    /\ ~Panicked
    /\ Len(created) < MaxEvents
    \* time.Now() reads a clock that has advanced since the last reading.
    /\ \E tm \in {now + 1}, uuid \in {UUIDNew(uuidsDrawn)} \cap UUIDs :
          /\ now' = tm
          /\ uuidsDrawn' = uuidsDrawn \cup {uuid}
          /\ created' = Append(created,
                 [ event |-> OutboxEvent(uuid, eventType, AggregateType,
                                         AggregateID, payload, tm),
                   eventType |-> eventType,
                   AggregateType |-> AggregateType,
                   AggregateID |-> AggregateID,
                   payload |-> payload ])
    /\ lastCall' = Call("CreateNewEvent", eventType, NilChannel, NoError, NilChannel)
    /\ UNCHANGED <<managerVars, channelVars, codec, inflight>>

----------------------------------------------------------------------------
(* Event manager *)

Store(m, eventType, channel) ==
    [k \in DOMAIN m \cup {eventType} |-> IF k = eventType THEN channel ELSE m[k]]

\* Variant: the write to the map is missing.
RegisterResult_noStore(m, eventType, channel) ==
    IF eventType \in DOMAIN m
    THEN [ m |-> m, err |-> ErrAlreadyRegistered ]
    ELSE [ m |-> m, err |-> NoError ]

\* Variant: the error is returned only after the map was written.
RegisterResult_writeThenFail(m, eventType, channel) ==
    IF eventType \in DOMAIN m
    THEN [ m |-> Store(m, eventType, channel), err |-> ErrAlreadyRegistered ]
    ELSE [ m |-> Store(m, eventType, channel), err |-> NoError ]

\* Variant: the existence check is missing, a later registration replaces.
RegisterResult_overwrite(m, eventType, channel) ==
    [ m |-> Store(m, eventType, channel), err |-> NoError ]

\* Variant: a successful registration starts a new map.
RegisterResult_reset(m, eventType, channel) ==
    IF eventType \in DOMAIN m
    THEN [ m |-> m, err |-> ErrAlreadyRegistered ]
    ELSE [ m |-> Store([k \in {} |-> NilChannel], eventType, channel),
           err |-> NoError ]

\* Variant: a channel already bound to some event type is refused.
RegisterResult_oneTypePerChannel(m, eventType, channel) ==
    IF \/ eventType \in DOMAIN m
       \/ \E k \in DOMAIN m : m[k] = channel
    THEN [ m |-> m, err |-> ErrAlreadyRegistered ]
    ELSE [ m |-> Store(m, eventType, channel), err |-> NoError ]

\* Variant: a different channel replaces the bound one, only the bound
\* channel itself is refused.
RegisterResult_replace(m, eventType, channel) ==
    IF eventType \in DOMAIN m /\ m[eventType] = channel
    THEN [ m |-> m, err |-> ErrAlreadyRegistered ]
    ELSE [ m |-> Store(m, eventType, channel), err |-> NoError ]

\* Variant: registering the bound channel again is accepted.
RegisterResult_idempotent(m, eventType, channel) ==
    IF eventType \in DOMAIN m
    THEN IF m[eventType] = channel
         THEN [ m |-> m, err |-> NoError ]
         ELSE [ m |-> m, err |-> ErrAlreadyRegistered ]
    ELSE [ m |-> Store(m, eventType, channel), err |-> NoError ]

\* Variant: the map is keyed by GetName() instead of the event type value.
RegisterResult_byName(m, eventType, channel) ==
    IF \E k \in DOMAIN m : GetName(k) = GetName(eventType)
    THEN [ m |-> m, err |-> ErrAlreadyRegistered ]
    ELSE [ m |-> Store(m, eventType, channel), err |-> NoError ]

\* Variant: a nil channel is refused.
RegisterResult_rejectNil(m, eventType, channel) ==
    IF channel = NilChannel
    THEN [ m |-> m, err |-> "event channel must not be nil" ]
    ELSE IF eventType \in DOMAIN m
         THEN [ m |-> m, err |-> ErrAlreadyRegistered ]
         ELSE [ m |-> Store(m, eventType, channel), err |-> NoError ]

\* Result of RegisterEventChannel on map m: the map afterwards and the error.
RegisterResult(m, eventType, channel) ==
    IF eventType \in DOMAIN m
    THEN [ m |-> m, err |-> ErrAlreadyRegistered ]
    ELSE [ m |-> Store(m, eventType, channel), err |-> NoError ]

\* Variant: a missing key yields the zero value without an error.
GetChannelResult_noCheck(m, eventType) ==
    IF eventType \in DOMAIN m
    THEN [ channel |-> m[eventType], err |-> NoError ]
    ELSE [ channel |-> NilChannel,   err |-> NoError ]

\* Result of GetChannel on map m.
GetChannelResult(m, eventType) ==
    IF eventType \in DOMAIN m
    THEN [ channel |-> m[eventType], err |-> NoError ]
    ELSE [ channel |-> NilChannel,   err |-> ErrNotFound ]

\* Variant: a successful registration delivers the latest event to the channel.
RegisterEventChannel_flush(eventType, channel) ==
    /\ ~Panicked
    /\ LET r == RegisterResult(eventChannels, eventType, channel) IN
          /\ eventChannels' = r.m
          /\ lastCall' = Call("RegisterEventChannel", eventType, channel, r.err, NilChannel)
          /\ chanEvents' =
                IF r.err = NoError /\ channel \in Channels /\ Len(created) > 0
                THEN [chanEvents EXCEPT
                         ![channel] = Append(@, created[Len(created)].event)]
                ELSE chanEvents
    /\ firstRegistered' =
          IF eventType \in DOMAIN firstRegistered
          THEN firstRegistered
          ELSE Store(firstRegistered, eventType, channel)
    /\ UNCHANGED <<eventVars, handoffs, codec, inflight>>

RegisterEventChannel(eventType, channel) ==
    /\ ~Panicked
    /\ LET r == RegisterResult(eventChannels, eventType, channel) IN
          /\ eventChannels' = r.m
          /\ lastCall' = Call("RegisterEventChannel", eventType, channel, r.err, NilChannel)
    /\ firstRegistered' =
          IF eventType \in DOMAIN firstRegistered
          THEN firstRegistered
          ELSE Store(firstRegistered, eventType, channel)
    /\ UNCHANGED <<eventVars, channelVars, codec, inflight>>

\* Variant: a failed lookup leaves a nil entry for the key in the map.
GetChannel_autoInsert(eventType) ==
    /\ ~Panicked
    /\ LET r == GetChannelResult(eventChannels, eventType) IN
          /\ lastCall' = Call("GetChannel", eventType, NilChannel, r.err, r.channel)
          /\ eventChannels' =
                IF r.err = NoError THEN eventChannels
                ELSE Store(eventChannels, eventType, NilChannel)
    /\ UNCHANGED <<firstRegistered, eventVars, channelVars, codec, inflight>>

GetChannel(eventType) ==
    /\ ~Panicked
    /\ LET r == GetChannelResult(eventChannels, eventType) IN
          lastCall' = Call("GetChannel", eventType, NilChannel, r.err, r.channel)
    /\ UNCHANGED <<managerVars, eventVars, channelVars, codec, inflight>>

----------------------------------------------------------------------------
(* Channel: the application hands an event, once, to the channel           *)
(* GetChannel just returned for the event's own type.                      *)

\* Variant: the channels share one backing slice, every channel records the event.
RegisterEvent_shared(i) ==
    /\ ~Panicked
    /\ i \in 1..Len(created)
    /\ \A h \in 1..Len(handoffs) : handoffs[h].event # created[i].event
    /\ lastCall.op = "GetChannel"
    /\ lastCall.err = NoError
    /\ created[i].eventType = lastCall.eventType
    /\ LET channel == lastCall.ret
           event   == created[i].event
       IN  IF channel = NilChannel
           THEN /\ lastCall' = Call("RegisterEvent", lastCall.eventType, channel,
                                    ErrNilDereference, NilChannel)
                /\ UNCHANGED channelVars
           ELSE /\ chanEvents' = [c \in Channels |-> Append(chanEvents[c], event)]
                /\ handoffs' = Append(handoffs,
                       [eventType |-> lastCall.eventType, channel |-> channel,
                        event |-> event])
                /\ lastCall' = Call("RegisterEvent", lastCall.eventType, channel,
                                    NoError, NilChannel)
    /\ UNCHANGED <<managerVars, eventVars, codec, inflight>>

RegisterEvent(i) ==
    /\ ~Panicked
    /\ i \in 1..Len(created)
    /\ \A h \in 1..Len(handoffs) : handoffs[h].event # created[i].event
    /\ lastCall.op = "GetChannel"
    /\ lastCall.err = NoError
    /\ created[i].eventType = lastCall.eventType
    /\ LET channel == lastCall.ret
           event   == created[i].event
       IN  IF channel = NilChannel
           THEN /\ lastCall' = Call("RegisterEvent", lastCall.eventType, channel,
                                    ErrNilDereference, NilChannel)
                /\ UNCHANGED channelVars
           ELSE /\ chanEvents' = [chanEvents EXCEPT ![channel] = Append(@, event)]
                /\ handoffs' = Append(handoffs,
                       [eventType |-> lastCall.eventType, channel |-> channel,
                        event |-> event])
                /\ lastCall' = Call("RegisterEvent", lastCall.eventType, channel,
                                    NoError, NilChannel)
    /\ UNCHANGED <<managerVars, eventVars, codec, inflight>>

----------------------------------------------------------------------------
(* OutboxEventStatus JSON codec.  JSON texts are sequences over the        *)
(* characters below: the double quote and lowercase letters, none of which *)
(* json.Marshal escapes and none of which is JSON whitespace.              *)

Quote == "\""

JSONNull == <<"n", "u", "l", "l">>

\* json.Unmarshal(data, &s) with s a string: a JSON string literal sets s to
\* its contents, the literal null leaves s alone, anything else is an error.
JSONUnmarshalString(data) ==
    IF /\ Len(data) >= 2
       /\ data[1] = Quote
       /\ data[Len(data)] = Quote
       /\ \A i \in 2..(Len(data) - 1) : data[i] # Quote
    THEN [ err |-> NoError, s |-> SubSeq(data, 2, Len(data) - 1) ]
    ELSE IF data = JSONNull
         THEN [ err |-> NoError, s |-> <<>> ]
         ELSE [ err |-> ErrDecode, s |-> <<>> ]

\* json.Marshal(s) for a string s: the contents between double quotes.
JSONMarshalString(s) == <<Quote>> \o s \o <<Quote>>

\* func (n *OutboxEventStatus) UnmarshalJSON(data []byte) error:
\* the receiver afterwards and the error.
UnmarshalJSON(n, data) ==
    LET r == JSONUnmarshalString(data) IN
        IF r.err # NoError
        THEN [ n |-> n,   err |-> r.err ]
        ELSE [ n |-> r.s, err |-> NoError ]

\* Variant: the bytes of the status itself, without JSON quoting.
MarshalJSON_raw(n) == [ data |-> String(n), err |-> NoError ]

\* func (n OutboxEventStatus) MarshalJSON() ([]byte, error)
MarshalJSON(n) == [ data |-> JSONMarshalString(String(n)), err |-> NoError ]

JSONAlphabet == {Quote, "n", "x"}

RECURSIVE TextsUpTo(_)
TextsUpTo(n) ==
    IF n = 0 THEN {<<>>}
    ELSE LET shorter == TextsUpTo(n - 1) IN
         shorter \cup {Append(t, ch) : t \in shorter, ch \in JSONAlphabet}

Unknown == <<"u", "n", "k", "n", "o", "w", "n">>

\* Inputs of the deserialization tests, the texts MarshalJSON produces and all
\* short texts over JSONAlphabet.
JSONInputs ==
    {JSONMarshalString(s) : s \in OutboxEventStatuses \cup {Unknown, <<>>}}
        \cup {<<"i", "n", "v", "a", "l", "i", "d">>, JSONNull}
        \cup TextsUpTo(MaxLen)

StatusValues == OutboxEventStatuses \cup {Unknown, <<>>}

\* json.Marshal(status)
MarshalStatus ==
    /\ codec.phase = "start"
    /\ LET r == MarshalJSON(codec.value) IN
          codec' = [codec EXCEPT !.phase = "marshalled", !.data = r.data, !.err = r.err]
    /\ UNCHANGED <<managerVars, eventVars, channelVars, lastCall, inflight>>

\* var status OutboxEventStatus; json.Unmarshal(data, &status)
UnmarshalStatus ==
    /\ codec.phase \in {"start", "marshalled"}
    /\ LET r == UnmarshalJSON(codec.target, codec.data) IN
          codec' = [codec EXCEPT
                       !.phase  = IF codec.phase = "start" THEN "unmarshalled"
                                                          ELSE "roundtrip",
                       !.target = r.n,
                       !.err    = r.err]
    /\ UNCHANGED <<managerVars, eventVars, channelVars, lastCall, inflight>>

----------------------------------------------------------------------------
(* RegisterEventChannel called from goroutines without coordination.  The  *)
(* manager holds no lock, so the existence check and the map write of one  *)
(* call are separate steps that calls of other goroutines can come         *)
(* between.  Two map writes that overlap in time are a data race: either   *)
(* both land, one after the other, or the runtime stops the program with   *)
(* "fatal error: concurrent map writes".                                   *)

Goroutines == {"g1", "g2"}

ErrConcurrentMapWrites == "fatal error: concurrent map writes"

InFlight(pc, eventType, channel, err, order) ==
    [pc |-> pc, eventType |-> eventType, channel |-> channel, err |-> err,
     order |-> order]

NotCalling == InFlight("idle", NoEventType, NilChannel, NoError, 0)

Fatal == \E p \in Goroutines : inflight[p].pc = "fatal"

\* if _, exists := m.eventChannels[eventType]; exists { return errors.New(...) }
RaceCheck(p, eventType, channel) ==
    /\ ~Fatal
    /\ inflight[p].pc = "idle"
    /\ inflight' = [inflight EXCEPT ![p] =
          IF eventType \in DOMAIN eventChannels
          THEN InFlight("done", eventType, channel, ErrAlreadyRegistered, 0)
          ELSE InFlight("checked", eventType, channel, NoError, 0)]
    /\ UNCHANGED <<managerVars, eventVars, channelVars, lastCall, codec>>

\* Variant: the write step looks the key up again and refuses if it is bound.
RaceWrite_recheck(p) ==
    /\ ~Fatal
    /\ inflight[p].pc = "checked"
    /\ LET call == inflight[p]
           r    == RegisterResult(eventChannels, call.eventType, call.channel)
           nth  == Cardinality({q \in Goroutines : inflight[q].order > 0}) + 1
       IN  /\ eventChannels' = r.m
           /\ firstRegistered' =
                 IF call.eventType \in DOMAIN firstRegistered
                 THEN firstRegistered
                 ELSE Store(firstRegistered, call.eventType, call.channel)
           /\ inflight' = [inflight EXCEPT ![p] =
                 InFlight("done", call.eventType, call.channel, r.err,
                          IF r.err = NoError THEN nth ELSE 0)]
    /\ UNCHANGED <<eventVars, channelVars, lastCall, codec>>

\* m.eventChannels[eventType] = channel; return nil
RaceWrite(p) ==
    /\ ~Fatal
    /\ inflight[p].pc = "checked"
    /\ LET call == inflight[p]
           nth  == Cardinality({q \in Goroutines : inflight[q].order > 0}) + 1
       IN  /\ eventChannels' = Store(eventChannels, call.eventType, call.channel)
           /\ firstRegistered' =
                 IF call.eventType \in DOMAIN firstRegistered
                 THEN firstRegistered
                 ELSE Store(firstRegistered, call.eventType, call.channel)
           /\ inflight' = [inflight EXCEPT ![p] =
                 InFlight("done", call.eventType, call.channel, NoError, nth)]
    /\ UNCHANGED <<eventVars, channelVars, lastCall, codec>>

\* Two goroutines are both about to write the map and the writes overlap.
RaceFatal ==
    /\ ~Fatal
    /\ \A p \in Goroutines : inflight[p].pc = "checked"
    /\ inflight' = [p \in Goroutines |->
          InFlight("fatal", inflight[p].eventType, inflight[p].channel,
                   ErrConcurrentMapWrites, 0)]
    /\ UNCHANGED <<managerVars, eventVars, channelVars, lastCall, codec>>

NextRace ==
    \/ \E p \in Goroutines, eventType \in EventTypes, channel \in ChannelArgs :
          RaceCheck(p, eventType, channel)
    \/ \E p \in Goroutines : RaceWrite(p)
    \/ RaceFatal

----------------------------------------------------------------------------
(* Specification of the registry, the factory and the channels *)

\* Arguments the application calls CreateNewEvent with: those of the tests,
\* and empty aggregate references.
CreateInputs ==
    { [ eventType |-> mockEventType("UserCreated", 1), AggregateType |-> "User",
        AggregateID |-> "user-1", payload |-> "data1" ],
      [ eventType |-> mockEventType("UserUpdated", 2), AggregateType |-> "User",
        AggregateID |-> "user-2", payload |-> "data2" ],
      [ eventType |-> mockEventType("UserCreated", 3), AggregateType |-> "",
        AggregateID |-> "", payload |-> "data1" ] }

NoCall == Call("none", NoEventType, NilChannel, NoError, NilChannel)

CodecIdle == [phase |-> "idle", value |-> <<>>, data |-> <<>>,
              target |-> <<>>, err |-> NoError]

\* NewOutboxEventManager(): non-nil manager with an empty map.
NewOutboxEventManager == [k \in {} |-> NilChannel]

Init ==
    /\ eventChannels = NewOutboxEventManager
    /\ firstRegistered = [k \in {} |-> NilChannel]
    /\ chanEvents = [c \in Channels |-> <<>>]
    /\ created = <<>>
    /\ handoffs = <<>>
    /\ uuidsDrawn = {}
    /\ now = 0
    /\ lastCall = NoCall
    /\ codec = CodecIdle
    /\ inflight = [p \in Goroutines |-> NotCalling]

Next ==
    \/ \E eventType \in EventTypes, channel \in ChannelArgs :
          RegisterEventChannel(eventType, channel)
    \/ \E eventType \in EventTypes : GetChannel(eventType)
    \/ \E in \in CreateInputs :
          CreateNewEvent(in.eventType, in.AggregateType, in.AggregateID, in.payload)
    \/ \E i \in 1..MaxEvents : RegisterEvent(i)

Spec == Init /\ [][Next]_vars

SpecRace == Init /\ [][NextRace]_vars

----------------------------------------------------------------------------
(* Specification of the event factory alone: CreateNewEvent is called with *)
(* every combination of event type, aggregate references (empty ones       *)
(* included) and payload.                                                  *)

AggregateTypes == {"", "User"}
AggregateIDs   == {"", "user-123"}
Payloads       == {"data1", "data2"}

NextFactory ==
    \E eventType \in EventTypes, AggregateType \in AggregateTypes,
       AggregateID \in AggregateIDs, payload \in Payloads :
          CreateNewEvent(eventType, AggregateType, AggregateID, payload)

SpecFactory == Init /\ [][NextFactory]_vars

----------------------------------------------------------------------------
(* Specification of the status codec: a status value and an input text are *)
(* drawn, then marshalled and/or unmarshalled.                             *)

InitStatus ==
    /\ eventChannels = NewOutboxEventManager
    /\ firstRegistered = [k \in {} |-> NilChannel]
    /\ chanEvents = [c \in Channels |-> <<>>]
    /\ created = <<>>
    /\ handoffs = <<>>
    /\ uuidsDrawn = {}
    /\ now = 0
    /\ lastCall = NoCall
    /\ inflight = [p \in Goroutines |-> NotCalling]
    /\ \E value \in StatusValues, data \in JSONInputs :
          codec = [phase |-> "start", value |-> value, data |-> data,
                   target |-> <<>>, err |-> NoError]

NextStatus ==
    \/ MarshalStatus
    \/ UnmarshalStatus

SpecStatus == InitStatus /\ [][NextStatus]_vars

----------------------------------------------------------------------------
(* Properties of the registry, checked under Spec *)

\* C1: on a manager where event type k is unbound, RegisterEventChannel(k, c)
\* returns no error, and a GetChannel(k) issued immediately afterwards
\* returns no error and the very channel instance c.
C1_RegisterThenGet ==
    [][ /\ ( /\ lastCall'.op = "RegisterEventChannel"
             /\ lastCall'.eventType \notin DOMAIN eventChannels )
           => lastCall'.err = NoError
        /\ ( /\ lastCall.op = "RegisterEventChannel"
             /\ lastCall.err = NoError
             /\ lastCall'.op = "GetChannel"
             /\ lastCall'.eventType = lastCall.eventType )
           => /\ lastCall'.err = NoError
              /\ lastCall'.ret = lastCall.channel ]_vars

\* A lookup returned the one channel that was registered on a new manager.
C1_Witness ==
    /\ lastCall.op = "GetChannel"
    /\ lastCall.err = NoError
    /\ lastCall.ret = "ch1"
    /\ DOMAIN eventChannels = {lastCall.eventType}
    /\ DOMAIN firstRegistered = {lastCall.eventType}

\* C2: if k is bound to c1, RegisterEventChannel(k, c2) with another channel
\* c2 returns the duplicate-registration error and leaves the registry
\* unchanged; GetChannel(k) afterwards returns c1 and not c2.
C2_DuplicateRejected ==
    [][ /\ ( /\ lastCall'.op = "RegisterEventChannel"
             /\ lastCall'.eventType \in DOMAIN eventChannels
             /\ lastCall'.channel # eventChannels[lastCall'.eventType]
             /\ lastCall' # lastCall )
           => /\ lastCall'.err =
                    "event channel already registered for this event type"
              /\ eventChannels' = eventChannels
        /\ ( /\ lastCall.op = "RegisterEventChannel"
             /\ lastCall.err # NoError
             /\ lastCall.channel # firstRegistered[lastCall.eventType]
             /\ lastCall'.op = "GetChannel"
             /\ lastCall'.eventType = lastCall.eventType )
           => /\ lastCall'.err = NoError
              /\ lastCall'.ret = firstRegistered[lastCall.eventType]
              /\ lastCall'.ret # lastCall.channel ]_vars

\* A registration of ch2 was refused for a key bound to ch1.
C2_Witness ==
    /\ lastCall.op = "RegisterEventChannel"
    /\ lastCall.err = ErrAlreadyRegistered
    /\ lastCall.channel = "ch2"
    /\ lastCall.eventType \in DOMAIN eventChannels
    /\ eventChannels[lastCall.eventType] = "ch1"

\* C3: GetChannel(k) for an unbound k returns the not-found error and a nil
\* channel; a newly constructed manager has no binding at all.
C3_NotFound ==
    /\ ( /\ lastCall.op = "GetChannel"
         /\ lastCall.eventType \notin DOMAIN eventChannels )
       => /\ lastCall.err = "outbox event channel not found"
          /\ lastCall.ret = NilChannel
    /\ ( /\ lastCall.op = "GetChannel"
         /\ DOMAIN firstRegistered = {} )
       => lastCall.err = "outbox event channel not found"
    /\ lastCall.op = "none" => DOMAIN eventChannels = {}

\* A lookup failed on a manager nothing was ever registered on.
C3_Witness ==
    /\ lastCall.op = "GetChannel"
    /\ lastCall.err = ErrNotFound
    /\ DOMAIN firstRegistered = {}

\* C4: bindings are never removed and never replaced, so a key always
\* resolves to the channel of the first RegisterEventChannel call made for it.
C4_FirstRegistrationWins ==
    /\ [][ \A k \in DOMAIN eventChannels :
              /\ k \in DOMAIN eventChannels'
              /\ eventChannels'[k] = eventChannels[k] ]_vars
    /\ [] ( /\ \A k \in DOMAIN firstRegistered :
                  /\ k \in DOMAIN eventChannels
                  /\ eventChannels[k] = firstRegistered[k]
            /\ ( /\ lastCall.op = "GetChannel"
                 /\ lastCall.eventType \in DOMAIN firstRegistered )
               => /\ lastCall.err = NoError
                  /\ lastCall.ret = firstRegistered[lastCall.eventType] )

\* A key first registered with ch1 is looked up once the binding set has
\* grown to all event types, and still resolves to ch1.
C4_Witness ==
    /\ lastCall.op = "GetChannel"
    /\ lastCall.ret = "ch1"
    /\ lastCall.eventType \in DOMAIN firstRegistered
    /\ firstRegistered[lastCall.eventType] = "ch1"
    /\ DOMAIN eventChannels = EventTypes

\* C5: with event types A and B bound to different channels X and Y (and no
\* other type bound to X or Y), X records exactly the events handed off for
\* A, in order, and Y those for B; no event of one channel is in the other.
C5_ChannelIsolation ==
    \A A \in DOMAIN eventChannels, B \in DOMAIN eventChannels :
        LET X == eventChannels[A]
            Y == eventChannels[B]
            Routed(k) ==
                LET sel == SelectSeq(handoffs, LAMBDA h : h.eventType = k)
                IN  [i \in 1..Len(sel) |-> sel[i].event]
        IN  ( /\ A # B
              /\ X \in Channels
              /\ Y \in Channels
              /\ X # Y
              /\ \A k \in DOMAIN eventChannels :
                    /\ eventChannels[k] = X => k = A
                    /\ eventChannels[k] = Y => k = B )
            => /\ chanEvents[X] = Routed(A)
               /\ chanEvents[Y] = Routed(B)
               /\ \A i \in 1..Len(chanEvents[X]) :
                     /\ chanEvents[X][i].EventType = A.name
                     /\ \A j \in 1..Len(chanEvents[Y]) :
                           chanEvents[X][i] # chanEvents[Y][j]
               /\ \A j \in 1..Len(chanEvents[Y]) :
                     chanEvents[Y][j].EventType = B.name

\* Two types of different names are bound to ch1 and ch2, and one event of
\* each type has been handed off.
C5_Witness ==
    \E A \in DOMAIN eventChannels, B \in DOMAIN eventChannels :
        /\ A.name # B.name
        /\ DOMAIN eventChannels = {A, B}
        /\ eventChannels[A] = "ch1"
        /\ eventChannels[B] = "ch2"
        /\ Len(chanEvents["ch1"]) = 1
        /\ Len(chanEvents["ch2"]) = 1

\* C6: every event CreateNewEvent returned has status "pending", and it
\* still has after any further core operation and after its hand-off.
C6_AlwaysPending ==
    /\ \A i \in 1..Len(created) :
          created[i].event.EventStatus = <<"p", "e", "n", "d", "i", "n", "g">>
    /\ \A c \in Channels : \A j \in 1..Len(chanEvents[c]) :
          chanEvents[c][j].EventStatus = <<"p", "e", "n", "d", "i", "n", "g">>

\* Events of two types exist, one was handed off, and a registry operation
\* followed.
C6_Witness ==
    /\ Len(created) >= 2
    /\ created[1].eventType # created[2].eventType
    /\ \E c \in Channels : Len(chanEvents[c]) >= 1
    /\ lastCall.op = "RegisterEventChannel"

\* C7: the events of N >= 2 CreateNewEvent calls, calls with identical
\* arguments included, have pairwise different, non-empty ids.
C7_UniqueEventIDs ==
    \A i \in 1..Len(created) :
        /\ Len(created[i].event.EventID) > 0
        /\ \A j \in 1..Len(created) :
              i # j => created[i].event.EventID # created[j].event.EventID

\* Two calls with identical arguments have returned.
C7_Witness ==
    /\ Len(created) >= 2
    /\ created[1].eventType = created[2].eventType
    /\ created[1].event.AggregateID = created[2].event.AggregateID
    /\ created[1].event.Payload = created[2].event.Payload

\* C10: a successful RegisterEventChannel(k, c) binds k to c and leaves what
\* every other event type resolves to (its channel, or not-found) as it was.
C10_RegisterFrame ==
    [][ ( /\ lastCall'.op = "RegisterEventChannel"
          /\ lastCall'.err = NoError
          /\ lastCall' # lastCall )
        => /\ lastCall'.eventType \in DOMAIN eventChannels'
           /\ eventChannels'[lastCall'.eventType] = lastCall'.channel
           /\ \A k \in EventTypes \ {lastCall'.eventType} :
                 /\ k \in DOMAIN eventChannels' <=> k \in DOMAIN eventChannels
                 /\ k \in DOMAIN eventChannels
                       => eventChannels'[k] = eventChannels[k] ]_vars

\* The third of three event types was just registered; the other two are
\* bound to ch1 and ch2.
C10_Witness ==
    /\ lastCall.op = "RegisterEventChannel"
    /\ lastCall.err = NoError
    /\ DOMAIN eventChannels = EventTypes
    /\ \E k1 \in EventTypes, k2 \in EventTypes :
          /\ k1 # lastCall.eventType
          /\ k2 # lastCall.eventType
          /\ eventChannels[k1] = "ch1"
          /\ eventChannels[k2] = "ch2"

\* C12: one channel instance may be registered under several event types:
\* every such registration succeeds and each of those types resolves to
\* that same instance.
C12_SharedChannel ==
    [][ /\ ( /\ lastCall'.op = "RegisterEventChannel"
             /\ lastCall' # lastCall
             /\ lastCall'.eventType \notin DOMAIN eventChannels
             /\ \E k \in DOMAIN eventChannels :
                   eventChannels[k] = lastCall'.channel )
           => /\ lastCall'.err = NoError
              /\ \A k \in DOMAIN eventChannels' :
                    ( k = lastCall'.eventType
                      \/ eventChannels[k] = lastCall'.channel )
                    => eventChannels'[k] = lastCall'.channel
        /\ ( /\ lastCall'.op = "GetChannel"
             /\ lastCall'.eventType \in DOMAIN eventChannels )
           => /\ lastCall'.err = NoError
              /\ lastCall'.ret = eventChannels[lastCall'.eventType] ]_vars

\* All three event types are bound to ch1 and a lookup returned ch1.
C12_Witness ==
    /\ DOMAIN eventChannels = EventTypes
    /\ \A k \in EventTypes : eventChannels[k] = "ch1"
    /\ lastCall.op = "GetChannel"
    /\ lastCall.err = NoError
    /\ lastCall.ret = "ch1"

C14_GetChannelPure ==
    [][ /\ lastCall'.op = "GetChannel" => eventChannels' = eventChannels
        /\ ( /\ lastCall'.op = "GetChannel"
             /\ lastCall'.err # NoError )
           => /\ lastCall'.eventType \notin DOMAIN eventChannels'
              /\ \A eventType \in EventTypes :
                    eventType \in DOMAIN eventChannels'
                       <=> eventType \in DOMAIN eventChannels
        /\ ( /\ lastCall.op = "GetChannel"
             /\ lastCall.err # NoError
             /\ lastCall'.op = "RegisterEventChannel"
             /\ lastCall'.eventType = lastCall.eventType )
           => lastCall'.err = NoError ]_vars

\* A lookup failed on a registry that holds bindings for the other types.
C14_Witness ==
    /\ lastCall.op = "GetChannel"
    /\ lastCall.err = ErrNotFound
    /\ DOMAIN eventChannels = EventTypes \ {lastCall.eventType}

\* C15: RegisterEventChannel and GetChannel never change what a channel has
\* recorded and bind no channel other than the one passed in; a channel's
\* events change only in a RegisterEvent call; CreateNewEvent leaves the
\* registry and every channel as they were.
C15_ManagerHoldsNoEvents ==
    [][ /\ lastCall'.op \in {"RegisterEventChannel", "GetChannel", "CreateNewEvent"}
           => chanEvents' = chanEvents
        /\ chanEvents' # chanEvents => lastCall'.op = "RegisterEvent"
        /\ lastCall'.op = "CreateNewEvent" => eventChannels' = eventChannels
        /\ \A k \in DOMAIN eventChannels' :
              \/ k \in DOMAIN eventChannels /\ eventChannels'[k] = eventChannels[k]
              \/ /\ lastCall'.op = "RegisterEventChannel"
                 /\ lastCall'.eventType = k
                 /\ lastCall'.channel = eventChannels'[k] ]_vars

\* An event was created and then a channel was registered; nothing has been
\* recorded by any channel.
C15_Witness ==
    /\ Len(created) >= 1
    /\ lastCall.op = "RegisterEventChannel"
    /\ lastCall.err = NoError
    /\ lastCall.channel \in Channels
    /\ \A c \in Channels : chanEvents[c] = <<>>

\* C17: whether RegisterEventChannel(k, c) succeeds depends only on k being
\* bound, not on c: registering the bound channel itself again also returns
\* the duplicate-registration error and leaves the registry unchanged.
C17_OutcomeIgnoresChannel ==
    [][ ( /\ lastCall'.op = "RegisterEventChannel"
          /\ lastCall' # lastCall )
        => /\ lastCall'.eventType \in DOMAIN eventChannels
              => /\ lastCall'.err = ErrAlreadyRegistered
                 /\ eventChannels' = eventChannels
           /\ lastCall'.eventType \notin DOMAIN eventChannels
              => lastCall'.err = NoError ]_vars

\* The channel bound to a key was registered for that key once more and
\* refused.
C17_Witness ==
    /\ lastCall.op = "RegisterEventChannel"
    /\ lastCall.err = ErrAlreadyRegistered
    /\ lastCall.channel \in Channels
    /\ eventChannels[lastCall.eventType] = lastCall.channel

\* C18: keys are compared as (name, id) values: a lookup with an equal value
\* finds the channel; two event types of one name and different ids are
\* different keys that bind different channels independently; events
\* created from either carry the same event_type string.
C18_KeysByValue ==
    /\ [][ /\ ( /\ lastCall'.op = "RegisterEventChannel"
                /\ lastCall' # lastCall
                /\ lastCall'.eventType \notin DOMAIN eventChannels )
              => /\ lastCall'.err = NoError
                 /\ \A k \in DOMAIN eventChannels :
                       eventChannels'[k] = eventChannels[k]
           /\ lastCall'.op = "GetChannel"
              => \A name \in {"UserCreated", "UserUpdated"}, id \in 1..3 :
                    ( /\ lastCall'.eventType = [name |-> name, id |-> id]
                      /\ [name |-> name, id |-> id] \in DOMAIN firstRegistered )
                    => lastCall'.ret = firstRegistered[[name |-> name, id |-> id]]
           /\ ( /\ lastCall'.op = "GetChannel"
                /\ lastCall'.eventType \notin DOMAIN eventChannels )
              => lastCall'.err = ErrNotFound ]_vars
    /\ [] ( \A i \in 1..Len(created), j \in 1..Len(created) :
               created[i].eventType.name = created[j].eventType.name
                  => created[i].event.EventType = created[j].event.EventType )

\* UserCreated with id 1 is bound to ch1 and UserCreated with id 3 to ch2, an
\* event was created from each, and a lookup of the second returned ch2.
C18_Witness ==
    /\ mockEventType("UserCreated", 1) \in DOMAIN eventChannels
    /\ mockEventType("UserCreated", 3) \in DOMAIN eventChannels
    /\ eventChannels[mockEventType("UserCreated", 1)] = "ch1"
    /\ eventChannels[mockEventType("UserCreated", 3)] = "ch2"
    /\ Len(created) = 2
    /\ created[1].eventType # created[2].eventType
    /\ created[1].event.EventType = created[2].event.EventType
    /\ lastCall.op = "GetChannel"
    /\ lastCall.eventType = mockEventType("UserCreated", 3)
    /\ lastCall.ret = "ch2"

\* C19: a nil channel is registered like any other: it occupies its key,
\* GetChannel then returns nil without an error, and every later
\* registration for the key is refused as a duplicate.
C19_NilChannelAccepted ==
    [][ /\ ( /\ lastCall'.op = "RegisterEventChannel"
             /\ lastCall' # lastCall
             /\ lastCall'.channel = NilChannel
             /\ lastCall'.eventType \notin DOMAIN eventChannels )
           => /\ lastCall'.err = NoError
              /\ lastCall'.eventType \in DOMAIN eventChannels'
              /\ eventChannels'[lastCall'.eventType] = NilChannel
        /\ ( /\ lastCall'.op = "GetChannel"
             /\ lastCall'.eventType \in DOMAIN eventChannels
             /\ eventChannels[lastCall'.eventType] = NilChannel )
           => /\ lastCall'.err = NoError
              /\ lastCall'.ret = NilChannel
        /\ ( /\ lastCall'.op = "RegisterEventChannel"
             /\ lastCall' # lastCall
             /\ lastCall'.eventType \in DOMAIN eventChannels
             /\ eventChannels[lastCall'.eventType] = NilChannel )
           => /\ lastCall'.err = ErrAlreadyRegistered
              /\ eventChannels'[lastCall'.eventType] = NilChannel ]_vars

\* A lookup returned a nil channel and no error.
C19_Witness ==
    /\ lastCall.op = "GetChannel"
    /\ lastCall.err = NoError
    /\ lastCall.ret = NilChannel

----------------------------------------------------------------------------
(* Properties of uncoordinated registration, checked under SpecRace *)

\* C16: the registry has no mutual exclusion: a call that passed the
\* existence check writes its channel and returns success whatever has been
\* bound in between, so the binding of a key is the channel of the call
\* that wrote last, and two calls for one unbound key can both succeed.
C16_LastWriteWins ==
    /\ [][ \A p \in Goroutines :
              ( inflight[p].pc = "checked" /\ inflight'[p].pc = "done" )
              => /\ inflight'[p].err = NoError
                 /\ inflight'[p].eventType \in DOMAIN eventChannels'
                 /\ eventChannels'[inflight'[p].eventType] = inflight[p].channel ]_vars
    /\ [] ( \A p \in Goroutines :
               ( /\ inflight[p].pc = "done"
                 /\ inflight[p].err = NoError
                 /\ \A q \in Goroutines :
                       inflight[q].eventType = inflight[p].eventType
                          => inflight[q].order <= inflight[p].order )
               => /\ inflight[p].eventType \in DOMAIN eventChannels
                  /\ eventChannels[inflight[p].eventType] = inflight[p].channel )

\* Both goroutines registered the same key with different channels, both
\* returned success, and the binding is the channel written second, not the
\* one written first.
C16_Witness ==
    /\ \A p \in Goroutines : inflight[p].pc = "done" /\ inflight[p].err = NoError
    /\ inflight["g1"].eventType = inflight["g2"].eventType
    /\ inflight["g1"].channel # inflight["g2"].channel
    /\ inflight["g1"].order = 1
    /\ inflight["g2"].order = 2
    /\ eventChannels[inflight["g1"].eventType] = inflight["g2"].channel
    /\ firstRegistered[inflight["g1"].eventType] = inflight["g1"].channel

----------------------------------------------------------------------------
(* Properties of the event factory, checked under SpecFactory *)

\* C11: CreateNewEvent never fails and validates nothing: the event carries
\* the name of the event type and the aggregate type, aggregate id and
\* payload exactly as passed, empty aggregate strings included.
C11_ArgumentsVerbatim ==
    /\ \A i \in 1..Len(created) :
          /\ created[i].event.EventType = created[i].eventType.name
          /\ created[i].event.AggregateType = created[i].AggregateType
          /\ created[i].event.AggregateID = created[i].AggregateID
          /\ created[i].event.Payload = created[i].payload
    /\ lastCall.op = "CreateNewEvent" => lastCall.err = NoError
    /\ Len(created) < MaxEvents
          => \A eventType \in EventTypes, AggregateType \in {"", "User"},
                AggregateID \in {"", "user-123"} :
                   ENABLED CreateNewEvent(eventType, AggregateType,
                                          AggregateID, "data1")

\* One event was created with an empty aggregate type only, another with an
\* empty aggregate id only.
C11_Witness ==
    \E i \in 1..Len(created), j \in 1..Len(created) :
        /\ created[i].AggregateType = ""
        /\ created[i].AggregateID # ""
        /\ created[i].event.AggregateType = ""
        /\ created[j].AggregateType # ""
        /\ created[j].AggregateID = ""
        /\ created[j].event.AggregateID = ""

----------------------------------------------------------------------------
(* Properties of the status codec, checked under SpecStatus *)

\* C8: deserializing an Event Status from any text other than "pending",
\* "closed" or "failed" fails with a decode error and yields no status.
C8_DecodeRejectsOtherText ==
    ( /\ codec.phase = "unmarshalled"
      /\ codec.data \notin
            { <<Quote, "p", "e", "n", "d", "i", "n", "g", Quote>>,
              <<Quote, "c", "l", "o", "s", "e", "d", Quote>>,
              <<Quote, "f", "a", "i", "l", "e", "d", Quote>> } )
    => /\ codec.err # NoError
       /\ codec.target = <<>>

\* C9: for pending, closed and failed, String() is the lowercase name,
\* MarshalJSON is that name as a JSON string, and UnmarshalJSON of the
\* marshalled bytes gives the original status and no error.
C9_StatusRoundTrip ==
    \A t \in { <<OutboxEventStatusPending, <<"p", "e", "n", "d", "i", "n", "g">> >>,
               <<OutboxEventStatusClosed,  <<"c", "l", "o", "s", "e", "d">> >>,
               <<OutboxEventStatusFailed,  <<"f", "a", "i", "l", "e", "d">> >> } :
        codec.value = t[1]
        => /\ String(codec.value) = t[2]
           /\ codec.phase \in {"marshalled", "roundtrip"}
                 => codec.data = <<Quote>> \o t[2] \o <<Quote>>
           /\ codec.phase = "marshalled" => codec.err = NoError
           /\ codec.phase = "roundtrip"
                 => /\ codec.err = NoError
                    /\ codec.target = codec.value

\* The status failed went through MarshalJSON and then UnmarshalJSON.
C9_Witness ==
    /\ codec.phase = "roundtrip"
    /\ codec.value = OutboxEventStatusFailed

====
